---- MODULE Spec2Model ----
(***************************************************************************)
(* A model of the request pipeline of the HTTP client: the projections of  *)
(* the classified request items (src/request_items.rs: headers, query,     *)
(* body) and the sequential run of inner_main (src/main.rs).               *)
(***************************************************************************)
EXTENDS Integers, Sequences, FiniteSets, TLC

VARIABLES
    pc,            \* position of the run inside inner_main
    args,          \* the parsed command line (Cli::from_args, line 55)
    env,           \* what the run has read from outside: stdin, the file size
    query,         \* request_items.query(), line 63
    headers,       \* request_items.headers(), line 64
    assembled,     \* the result of request_items.body(..), line 68
    ignore_stdin,  \* line 67
    body,          \* the body after the stdin rule, lines 68-80
    request,       \* the built request: its header map, lines 156-202
    resume,        \* the resume offset, lines 95 and 183
    print,         \* the print gates, lines 210-220
    printed,       \* the parts the printer has written, in order
    executed,      \* client.execute has been called, line 231
    status,        \* the status of the response, line 235
    exit_code,     \* the exit code, lines 236-242, 255 and 59
    download,      \* the call of download_file, line 248
    err            \* why the run ended in an error, if it did

vars == <<pc, args, env, query, headers, assembled, ignore_stdin, body, request,
          resume, print, printed, executed, status, exit_code, download, err>>

----------------------------------------------------------------------------
(* Bounds of the model.                                                    *)

\* longest item sequence handed to the projections alone
MaxBodyItems == 3
\* longest item sequence of a request build
MaxHeaderItems == 2
\* longest item sequence of a whole run
MaxItems == 1

----------------------------------------------------------------------------
(* Values.                                                                 *)

None == [kind |-> "None"]
\* a local the run has not reached yet
Undef == [kind |-> "Undef"]
Some(v) == [kind |-> "Some", v |-> v]

\* serde_json::Value, as far as the items build it
JsonString(s) == [t |-> "String", v |-> s]
JsonNumber(s) == [t |-> "Number", v |-> s]

\* RequestItem, the variants matched in request_items.rs
HttpHeader(k, v) == [kind |-> "HttpHeader", key |-> k, value |-> v]
HttpHeaderToUnset(k) == [kind |-> "HttpHeaderToUnset", key |-> k, value |-> ""]
UrlParam(k, v) == [kind |-> "UrlParam", key |-> k, value |-> v]
JSONField(k, v) == [kind |-> "JSONField", key |-> k, value |-> v]
DataField(k, v) == [kind |-> "DataField", key |-> k, value |-> v]
FormFile(k, v) == [kind |-> "FormFile", key |-> k, value |-> v]

SeqsUpTo(S, n) == UNION {[1..k -> S] : k \in 0..n}

----------------------------------------------------------------------------
(* RequestItems::query                                                     *)

RECURSIVE query_loop(_, _)
query_loop(s, acc) ==
    IF s = <<>> THEN acc
    ELSE query_loop(Tail(s),
                    IF Head(s).kind = "UrlParam"
                    THEN Append(acc, <<Head(s).key, Head(s).value>>)
                    ELSE acc)

RequestItems_query(items) == query_loop(items, <<>>)

----------------------------------------------------------------------------
(* RequestItems::body                                                      *)

ErrFilesInJson == "Sending Files is not supported when the request body is in JSON format"
ErrJsonInForm == "JSON values are not supported in Form fields"

Ok(v) == [res |-> "Ok", v |-> v]
Err(e) == [res |-> "Err", e |-> e]
Panic == [res |-> "Panic"]

\* an insert that keeps the value a key already has
MapInsert_keeps_first(m, k, v) ==
    [x \in DOMAIN m \cup {k} |-> IF x \in DOMAIN m THEN m[x] ELSE v]

\* serde_json::Map::insert: one entry per key, the new value replaces the old
MapInsert(m, k, v) == [x \in DOMAIN m \cup {k} |-> IF x = k THEN v ELSE m[x]]

EmptyMap == [x \in {} |-> None]

RECURSIVE json_loop(_, _)
\* the loop of lines 56-69: the map built, or the error it returns with
json_loop(s, m) ==
    IF s = <<>> THEN Ok(m)
    ELSE LET item == Head(s) IN
         CASE item.kind = "JSONField" ->
                  json_loop(Tail(s), MapInsert(m, item.key, item.value))
           [] item.kind = "DataField" ->
                  json_loop(Tail(s), MapInsert(m, item.key, JsonString(item.value)))
           [] item.kind = "FormFile" -> Err(ErrFilesInJson)
           [] OTHER -> json_loop(Tail(s), m)

RECURSIVE form_loop(_, _, _)
\* the loop of lines 78-87: the two lists, or the error it returns with
form_loop(s, text_fields, files) ==
    IF s = <<>> THEN Ok([text_fields |-> text_fields, files |-> files])
    ELSE LET item == Head(s) IN
         CASE item.kind = "JSONField" -> Err(ErrJsonInForm)
           [] item.kind = "DataField" ->
                  form_loop(Tail(s), Append(text_fields, <<item.key, item.value>>), files)
           [] item.kind = "FormFile" ->
                  form_loop(Tail(s), text_fields, Append(files, <<item.key, item.value>>))
           [] OTHER -> form_loop(Tail(s), text_fields, files)

\* the match of lines 88-101 with the file count ignored
form_match_no_files(text_fields, files, unreadable) ==
    IF Len(text_fields) = 0 /\ Len(files) = 0 THEN Ok(None)
    ELSE Ok(Some([kind |-> "Form", pairs |-> text_fields]))

\* the match of lines 88-101; form.file(..).unwrap() panics on a path that
\* cannot be opened
form_match(text_fields, files, unreadable) ==
    IF Len(text_fields) = 0 /\ Len(files) = 0 THEN Ok(None)
    ELSE IF Len(files) = 0 THEN Ok(Some([kind |-> "Form", pairs |-> text_fields]))
    ELSE IF \E i \in 1..Len(files) : files[i][2] \in unreadable THEN Panic
    ELSE Ok(Some([kind |-> "Multipart", text |-> text_fields, files |-> files]))

\* lines 55-74
json_branch(items) ==
    LET r == json_loop(items, EmptyMap) IN
    IF r.res # "Ok" THEN r
    ELSE IF Cardinality(DOMAIN r.v) > 0
         THEN Ok(Some([kind |-> "Json", map |-> r.v]))
         ELSE Ok(None)

\* the form branch that lets a JSONField pass
form_branch_skips_json(items, unreadable) ==
    LET r == form_loop(SelectSeq(items, LAMBDA it : it.kind # "JSONField"), <<>>, <<>>) IN
    form_match(r.v.text_fields, r.v.files, unreadable)

\* lines 76-101
form_branch(items, unreadable) ==
    LET r == form_loop(items, <<>>, <<>>) IN
    IF r.res # "Ok" THEN r
    ELSE form_match(r.v.text_fields, r.v.files, unreadable)

\* body(&self, as_form): the function has no multipart parameter; unreadable
\* is the set of paths the file system refuses to open
RequestItems_body(items, as_form, unreadable) ==
    IF ~as_form THEN json_branch(items) ELSE form_branch(items, unreadable)

----------------------------------------------------------------------------
(* RequestItems::headers                                                   *)

\* HeaderName::from_bytes: a header name is kept in lower case; a name with
\* a character outside the token set is refused
InvalidHeaderKeys == {"bad name"}

HeaderName(key) ==
    CASE key = "Range" -> "range"
      [] key = "Accept" -> "accept"
      [] key = "Content-Type" -> "content-type"
      [] key = "Authorization" -> "authorization"
      [] key = "User-Agent" -> "user-agent"
      [] key = "X-Foo" -> "x-foo"
      [] OTHER -> key

EmptyHeaders == [x \in {} |-> <<>>]

\* HeaderMap::insert: the name keeps the one new value
HeaderInsert(h, k, v) == [x \in DOMAIN h \cup {k} |-> IF x = k THEN <<v>> ELSE h[x]]

\* HeaderMap::append: the value is added to those the name has
HeaderAppend(h, k, v) ==
    [x \in DOMAIN h \cup {k} |->
        IF x = k THEN (IF k \in DOMAIN h THEN Append(h[k], v) ELSE <<v>>) ELSE h[x]]

\* HeaderMap::remove: every value of the name goes
HeaderRemove(h, k) == [x \in DOMAIN h \ {k} |-> h[x]]

RECURSIVE headers_loop(_, _)
\* lines 27-36: the unwraps of lines 30-31 panic on a refused name
headers_loop(s, h) ==
    IF s = <<>> THEN Ok(h)
    ELSE LET item == Head(s) IN
         IF item.kind = "HttpHeader"
         THEN IF item.key \in InvalidHeaderKeys THEN Panic
              ELSE headers_loop(Tail(s), HeaderInsert(h, HeaderName(item.key), item.value))
         ELSE headers_loop(Tail(s), h)

\* lines 21-38
RequestItems_headers(items, host) ==
    headers_loop(items,
        HeaderInsert(HeaderInsert(HeaderInsert(HeaderInsert(EmptyHeaders,
            "accept", "*/*"),
            "accept-encoding", "gzip, deflate"),
            "connection", "keep-alive"),
            "host", host))

RECURSIVE unset_loop(_, _)
unset_loop(s, acc) ==
    IF s = <<>> THEN Ok(acc)
    ELSE LET item == Head(s) IN
         IF item.kind = "HttpHeaderToUnset"
         THEN IF item.key \in InvalidHeaderKeys THEN Err("invalid header name")
              ELSE unset_loop(Tail(s), Append(acc, HeaderName(item.key)))
         ELSE unset_loop(Tail(s), acc)

\* the second component of the pair main.rs line 64 takes from headers():
\* the names of the header-unset items, in classified order
RequestItems_headers_to_unset(items) == unset_loop(items, <<>>)

----------------------------------------------------------------------------
(* The request of inner_main, lines 156-202.                               *)

Digit(d) ==
    CASE d = 0 -> "0" [] d = 1 -> "1" [] d = 2 -> "2" [] d = 3 -> "3"
      [] d = 4 -> "4" [] d = 5 -> "5" [] d = 6 -> "6" [] d = 7 -> "7"
      [] d = 8 -> "8" [] d = 9 -> "9"

RECURSIVE fmt_u64(_)
\* Display of a u64: its decimal digits
fmt_u64(n) == IF n < 10 THEN Digit(n) ELSE fmt_u64(n \div 10) \o Digit(n % 10)

\* format!("bytes={}-", file_size), line 182
range_value(file_size) == "bytes=" \o fmt_u64(file_size) \o "-"

UserAgent == "xh/0.0.0 (test mode)"

\* lines 157-161
base_headers ==
    HeaderAppend(HeaderAppend(HeaderAppend(EmptyHeaders,
        "accept-encoding", "gzip, deflate"),
        "connection", "keep-alive"),
        "user-agent", UserAgent)

\* lines 163-178: the Accept header of the body variant, and the Content-Type
\* its encoder sets
body_headers(h, b) ==
    IF b = None THEN HeaderAppend(h, "accept", "*/*")
    ELSE CASE b.v.kind = "Form" ->
                  HeaderInsert(HeaderAppend(h, "accept", "*/*"),
                               "content-type", "application/x-www-form-urlencoded")
           [] b.v.kind = "Multipart" ->
                  HeaderAppend(HeaderAppend(h, "accept", "*/*"),
                               "content-type", "multipart/form-data; boundary=B")
           [] b.v.kind = "Json" ->
                  HeaderInsert(HeaderAppend(h, "accept", "application/json, */*"),
                               "content-type", "application/json")
           [] b.v.kind = "Raw" ->
                  HeaderAppend(HeaderAppend(h, "accept", "application/json, */*"),
                               "content-type", "application/json")

\* the Range header added with the offset not kept
resume_step_drops_offset(h, args_resume, file_size) ==
    IF args_resume /\ file_size # None
    THEN [headers |-> HeaderAppend(h, "range", range_value(file_size.v)),
          resume |-> None]
    ELSE [headers |-> h, resume |-> None]

\* lines 180-185: the Range header and the offset kept for the download
resume_step(h, args_resume, file_size) ==
    IF args_resume /\ file_size # None
    THEN [headers |-> HeaderAppend(h, "range", range_value(file_size.v)),
          resume |-> Some(file_size.v)]
    ELSE [headers |-> h, resume |-> None]

\* lines 187-193
auth_headers(h, auth, bearer) ==
    LET h1 == IF auth # None THEN HeaderAppend(h, "authorization", "Basic " \o auth.v)
              ELSE h
    IN IF bearer # None THEN HeaderAppend(h1, "authorization", "Bearer " \o bearer.v)
       ELSE h1

\* RequestBuilder::headers, line 195: every name of the projected map
\* replaces what the builder holds under it
replace_headers(h, projected) ==
    [x \in DOMAIN h \cup DOMAIN projected |->
        IF x \in DOMAIN projected THEN projected[x] ELSE h[x]]

RECURSIVE remove_all(_, _)
\* lines 197-199
remove_all(h, names) ==
    IF names = <<>> THEN h ELSE remove_all(HeaderRemove(h, Head(names)), Tail(names))

\* the unsets applied before the projected headers are merged
finalize_unset_first(h, projected, names) ==
    replace_headers(remove_all(h, names), projected)

\* lines 195-201: merge the projected headers, then remove the unset names
finalize(h, projected, names) == remove_all(replace_headers(h, projected), names)

\* the header map before line 195
built_headers(b, args_resume, file_size, auth, bearer) ==
    auth_headers(resume_step(body_headers(base_headers, b), args_resume, file_size).headers,
                 auth, bearer)

----------------------------------------------------------------------------
(* The exit code, lines 236-242.                                           *)

\* the match with the 3xx arm not guarded by follow
classify_ignores_follow(st, follow, check_status, is_download) ==
    IF ~(check_status \/ is_download) THEN 0
    ELSE IF st \in 300..399 THEN 3
    ELSE IF st \in 400..499 THEN 4
    ELSE IF st \in 500..599 THEN 5
    ELSE 0

classify(st, follow, check_status, is_download) ==
    IF ~(check_status \/ is_download) THEN 0
    ELSE IF st \in 300..399 /\ ~follow THEN 3
    ELSE IF st \in 400..499 THEN 4
    ELSE IF st \in 500..599 THEN 5
    ELSE 0

----------------------------------------------------------------------------
(* inner_main, step by step.                                               *)

Host == "example.org"
Paths == {"f", "g"}
StdinContents == {<<>>, <<104, 105>>}
FileSizes == {None, Some(0), Some(1024)}
Statuses == {200, 301, 404, 503}
PrintGates == [request_headers : BOOLEAN, request_body : BOOLEAN,
               response_headers : BOOLEAN, response_body : BOOLEAN]

NoEnv == [stdin |-> Undef, unreadable |-> Undef, file_size |-> Undef]

\* the run has not ended in an error
NoError == "none"

Fail(kind) == pc' = "failed" /\ err' = kind

\* lines 57-60
Curl ==
    /\ pc = "start"
    /\ args.curl
    /\ \/ /\ pc' = "done"
          /\ exit_code' = 0
          /\ printed' = Append(printed, "curl")
          /\ err' = err
       \/ /\ Fail("Curl")
          /\ UNCHANGED <<exit_code, printed>>
    /\ UNCHANGED <<args, env, query, headers, assembled, ignore_stdin, body, request,
                   resume, print, executed, status, download>>

\* lines 62-65
Project ==
    /\ pc = "start"
    /\ ~args.curl
    /\ LET q == RequestItems_query(args.request_items)
           h == RequestItems_headers(args.request_items, Host)
           u == RequestItems_headers_to_unset(args.request_items)
       IN \/ /\ h.res # "Ok" \/ u.res # "Ok"
             /\ Fail("HeaderProjection")
             /\ query' = q
             /\ headers' = headers
          \/ /\ h.res = "Ok" /\ u.res = "Ok"
             /\ Fail("InvalidUrl")
             /\ query' = q
             /\ headers' = [set |-> h.v, unset |-> u.v]
          \/ /\ h.res = "Ok" /\ u.res = "Ok"
             /\ pc' = "projected"
             /\ err' = err
             /\ query' = q
             /\ headers' = [set |-> h.v, unset |-> u.v]
    /\ UNCHANGED <<args, env, assembled, ignore_stdin, body, request, resume, print,
                   printed, executed, status, exit_code, download>>

\* the stdin rule with a piped stream dropped when the items give a body
stdin_rule_prefers_items(r, ign, piped) ==
    IF r.v # None \/ ign THEN [res |-> "Ok", v |-> r.v]
    ELSE [res |-> "Ok", v |-> Some([kind |-> "Raw", bytes |-> piped])]

\* lines 68-80, for a body() that returned Ok(r.v)
stdin_rule(r, ign, piped) ==
    IF r.v # None /\ ~ign THEN Err("ConflictingBodySources")
    ELSE IF r.v = None /\ ~ign
         THEN [res |-> "Ok", v |-> Some([kind |-> "Raw", bytes |-> piped])]
         ELSE [res |-> "Ok", v |-> r.v]

\* lines 67-80, but for the printer, which they leave alone
AssembleBodyCore ==
    /\ pc = "projected"
    /\ \E tty \in BOOLEAN, pretend \in BOOLEAN, unreadable \in SUBSET Paths,
          piped \in StdinContents, read_ok \in BOOLEAN :
          LET ign == args.ignore_stdin \/ tty \/ pretend
              r == RequestItems_body(args.request_items, args.form, unreadable)
              opened == r.res = "Panic" \/ (r.res = "Ok" /\ r.v # None /\ r.v.v.kind = "Multipart")
              read == r.res = "Ok" /\ r.v = None /\ ~ign
          IN /\ ignore_stdin' = ign
             /\ assembled' = r
             /\ env' = [env EXCEPT !.unreadable = IF opened THEN unreadable ELSE @,
                                   !.stdin = IF read /\ read_ok THEN piped ELSE @]
             /\ CASE r.res = "Err" -> Fail("IncompatibleBodyFields") /\ body' = body
                  [] r.res = "Panic" -> Fail("Panic") /\ body' = body
                  [] OTHER ->
                       LET b == stdin_rule(r, ign, piped) IN
                       IF b.res = "Err" THEN Fail(b.e) /\ body' = body
                       ELSE IF read /\ ~read_ok THEN Fail("StdinRead") /\ body' = body
                       ELSE /\ body' = b.v
                            /\ pc' = "body"
                            /\ err' = err
    /\ UNCHANGED <<args, query, headers, request, resume, print, executed,
                   status, exit_code, download>>

\* the request headers written before the body is assembled
AssembleBody_after_print ==
    AssembleBodyCore /\ printed' = Append(printed, "request_headers")

\* lines 67-80
AssembleBody == AssembleBodyCore /\ printed' = printed

\* lines 82-154: the method, the redirect policy, the TLS and proxy setup
ClientSetup ==
    /\ pc = "body"
    /\ \/ pc' = "client" /\ err' = err
       \/ Fail("ClientSetup")
    /\ UNCHANGED <<args, env, query, headers, assembled, ignore_stdin, body, request,
                   resume, print, printed, executed, status, exit_code, download>>

\* lines 156-202
BuildRequest ==
    /\ pc = "client"
    /\ \E file_size \in FileSizes :
          LET size == IF args.resume THEN file_size ELSE None
              r == resume_step(body_headers(base_headers, body), args.resume, size)
              h == auth_headers(r.headers, args.auth, args.bearer)
          IN /\ env' = [env EXCEPT !.file_size = IF args.resume THEN file_size ELSE @]
             /\ resume' = r.resume
             /\ \/ /\ args.auth # None
                   /\ Fail("Auth")
                   /\ request' = request
                \/ /\ Fail("Build")
                   /\ request' = request
                \/ /\ pc' = "built"
                   /\ err' = err
                   /\ request' = [headers |-> finalize(h, headers.set, headers.unset)]
    /\ UNCHANGED <<args, query, headers, assembled, ignore_stdin, body, print, printed,
                   executed, status, exit_code, download>>

\* the request parts written when the gates are open
request_parts(p) ==
    (IF p.request_headers THEN <<"request_headers">> ELSE <<>>)
        \o (IF p.request_body THEN <<"request_body">> ELSE <<>>)

\* lines 204-228
PrintRequest ==
    /\ pc = "built"
    /\ \/ /\ Fail("Buffer")
          /\ UNCHANGED <<print, printed>>
       \/ \E p \in PrintGates :
             /\ print' = p
             /\ printed' = printed \o request_parts(p)
             /\ pc' = "request_printed"
             /\ err' = err
    /\ UNCHANGED <<args, env, query, headers, assembled, ignore_stdin, body, request,
                   resume, executed, status, exit_code, download>>

\* lines 229-231
Execute ==
    /\ pc = "request_printed"
    /\ ~args.offline
    /\ executed' = TRUE
    /\ \/ /\ Fail("Transport")
          /\ status' = status
       \/ \E st \in Statuses :
             /\ status' = st
             /\ pc' = "responded"
             /\ err' = err
    /\ UNCHANGED <<args, env, query, headers, assembled, ignore_stdin, body, request,
                   resume, print, printed, exit_code, download>>

\* lines 254-256
Offline ==
    /\ pc = "request_printed"
    /\ args.offline
    /\ exit_code' = 0
    /\ pc' = "done"
    /\ UNCHANGED <<args, env, query, headers, assembled, ignore_stdin, body, request,
                   resume, print, printed, executed, status, download, err>>

\* lines 232-245
Classify ==
    /\ pc = "responded"
    /\ printed' = IF print.response_headers
                  THEN Append(printed, "response_headers") ELSE printed
    /\ exit_code' = classify(status, args.follow, args.check_status, args.download)
    /\ pc' = "classified"
    /\ UNCHANGED <<args, env, query, headers, assembled, ignore_stdin, body, request,
                   resume, print, executed, status, download, err>>

\* the download started whatever the exit code
finish_downloads_always(is_download, code, offset, p) ==
    IF is_download THEN [download |-> Some([resume |-> offset]), parts |-> <<>>]
    ELSE [download |-> None,
          parts |-> IF p.response_body THEN <<"response_body">> ELSE <<>>]

\* lines 246-252: the download that is started and the part that is written
finish(is_download, code, offset, p) ==
    IF is_download
    THEN [download |-> IF code = 0 THEN Some([resume |-> offset]) ELSE None,
          parts |-> <<>>]
    ELSE [download |-> None,
          parts |-> IF p.response_body THEN <<"response_body">> ELSE <<>>]

\* lines 246-253
Finish ==
    /\ pc = "classified"
    /\ LET f == finish(args.download, exit_code, resume, print) IN
          /\ download' = f.download
          /\ printed' = printed \o f.parts
          /\ \/ pc' = "done" /\ err' = err
             \/ f.download # None /\ Fail("Download")
             \/ f.parts # <<>> /\ Fail("Print")
    /\ UNCHANGED <<args, env, query, headers, assembled, ignore_stdin, body, request,
                   resume, print, executed, status, exit_code>>

Next ==
    \/ Curl
    \/ Project
    \/ AssembleBody
    \/ ClientSetup
    \/ BuildRequest
    \/ PrintRequest
    \/ Execute
    \/ Offline
    \/ Classify
    \/ Finish

----------------------------------------------------------------------------
(* The whole run.                                                          *)

RunItems ==
    { DataField("a", "1"), JSONField("a", JsonNumber("1")), FormFile("a", "f"),
      HttpHeader("Range", "bytes=5-"), HttpHeaderToUnset("Range"),
      HttpHeader("bad name", "v") }

RunArgs ==
    [request_items : SeqsUpTo(RunItems, MaxItems),
     curl : BOOLEAN, form : BOOLEAN, multipart : BOOLEAN, ignore_stdin : BOOLEAN,
     follow : BOOLEAN, resume : BOOLEAN, download : BOOLEAN, offline : BOOLEAN,
     check_status : BOOLEAN, auth : {None, Some("u:p")}, bearer : {None, Some("tok")}]

Blank ==
    /\ query = Undef
    /\ headers = Undef
    /\ assembled = Undef
    /\ ignore_stdin = Undef
    /\ body = Undef
    /\ request = Undef
    /\ resume = None
    /\ print = Undef
    /\ printed = <<>>
    /\ executed = FALSE
    /\ status = Undef
    /\ exit_code = Undef
    /\ download = None
    /\ err = NoError

Init ==
    /\ pc = "start"
    /\ args \in RunArgs
    /\ env = NoEnv
    /\ Blank

Spec == Init /\ [][Next]_vars

----------------------------------------------------------------------------
(* The projections alone: query() and body() over every short item         *)
(* sequence.                                                               *)

BodyItems ==
    { DataField("a", "1"), DataField("a", "x"), DataField("b", "1"),
      JSONField("a", JsonNumber("1")), JSONField("a", JsonString("x")),
      JSONField("b", JsonNumber("1")),
      FormFile("a", "f"), FormFile("b", "g"),
      UrlParam("q", "1"), UrlParam("q", "2"),
      HttpHeader("X-Foo", "1") }

BodyArgs ==
    [request_items : SeqsUpTo(BodyItems, MaxBodyItems),
     form : BOOLEAN, multipart : BOOLEAN]

InitBody ==
    /\ pc = "items"
    /\ args \in BodyArgs
    /\ Blank
    /\ \E unreadable \in SUBSET Paths : env = [NoEnv EXCEPT !.unreadable = unreadable]

\* line 63
CallQuery ==
    /\ pc = "items"
    /\ query' = RequestItems_query(args.request_items)
    /\ pc' = "queried"
    /\ UNCHANGED <<args, env, headers, assembled, ignore_stdin, body, request, resume,
                   print, printed, executed, status, exit_code, download, err>>

\* line 68: the call passes args.form and args.multipart; body() takes as_form
CallBody ==
    /\ pc = "queried"
    /\ assembled' = RequestItems_body(args.request_items, args.form, env.unreadable)
    /\ pc' = "assembled"
    /\ UNCHANGED <<args, env, query, headers, ignore_stdin, body, request, resume,
                   print, printed, executed, status, exit_code, download, err>>

NextBody == CallQuery \/ CallBody

SpecBody == InitBody /\ [][NextBody]_vars

----------------------------------------------------------------------------
(* The request build alone, from every state the run can reach line 156 in *)
(* with a short sequence of header and body items.                         *)

HeaderItems ==
    { HttpHeader("Range", "bytes=5-"), HttpHeader("range", "bytes=7-"),
      HttpHeader("X-Foo", "1"), HttpHeader("Accept", "text/html"),
      HttpHeaderToUnset("Range"), HttpHeaderToUnset("Accept"),
      HttpHeaderToUnset("accept-encoding"), HttpHeaderToUnset("connection"),
      HttpHeaderToUnset("User-Agent"), HttpHeaderToUnset("Content-Type"),
      HttpHeaderToUnset("Authorization"), HttpHeaderToUnset("X-Foo"),
      DataField("a", "1"), FormFile("a", "f") }

RequestArgs ==
    [request_items : SeqsUpTo(HeaderItems, MaxHeaderItems),
     form : BOOLEAN, resume : BOOLEAN,
     auth : {None, Some("u:p")}, bearer : {None, Some("tok")}]

InitRequest ==
    /\ pc = "client"
    /\ args \in RequestArgs
    /\ \E ign \in BOOLEAN, piped \in StdinContents :
          LET h == RequestItems_headers(args.request_items, Host)
              u == RequestItems_headers_to_unset(args.request_items)
              r == RequestItems_body(args.request_items, args.form, {})
              read == r.res = "Ok" /\ r.v = None /\ ~ign
          IN /\ h.res = "Ok" /\ u.res = "Ok" /\ r.res = "Ok"
             /\ stdin_rule(r, ign, piped).res = "Ok"
             /\ query = RequestItems_query(args.request_items)
             /\ headers = [set |-> h.v, unset |-> u.v]
             /\ assembled = r
             /\ ignore_stdin = ign
             /\ body = stdin_rule(r, ign, piped).v
             /\ env = [NoEnv EXCEPT !.stdin = IF read THEN piped ELSE @]
    /\ request = Undef
    /\ resume = None
    /\ print = Undef
    /\ printed = <<>>
    /\ executed = FALSE
    /\ status = Undef
    /\ exit_code = Undef
    /\ download = None
    /\ err = NoError

NextRequest == BuildRequest

SpecRequest == InitRequest /\ [][NextRequest]_vars

----------------------------------------------------------------------------
(* The classification alone, over every status a response can carry.       *)

AllStatuses == 100..999

ClassifyArgs ==
    [follow : BOOLEAN, check_status : BOOLEAN, download : BOOLEAN]

InitClassify ==
    /\ pc = "responded"
    /\ args \in ClassifyArgs
    /\ status \in AllStatuses
    /\ print \in PrintGates
    /\ print.request_headers = print.request_body
    /\ printed = request_parts(print)
    /\ executed = TRUE
    /\ env = NoEnv
    /\ query = <<>>
    /\ headers = Undef
    /\ assembled = Ok(None)
    /\ ignore_stdin = TRUE
    /\ body = None
    /\ request = Undef
    /\ resume = None
    /\ exit_code = Undef
    /\ download = None
    /\ err = NoError

NextClassify == Classify

SpecClassify == InitClassify /\ [][NextClassify]_vars

----------------------------------------------------------------------------
(* What the claims speak of.                                               *)

Items == args.request_items
HasKind(k) == \E i \in 1..Len(Items) : Items[i].kind = k
OfKind(k) == SelectSeq(Items, LAMBDA it : it.kind = k)
PairsOf(s) == [i \in 1..Len(s) |-> <<s[i].key, s[i].value>>]
Elems(s) == {s[i] : i \in 1..Len(s)}

ReturnedBody(r, k) == r.res = "Ok" /\ r.v # None /\ r.v.v.kind = k
ReturnedNone(r) == r.res = "Ok" /\ r.v = None

\* the positions of the items that feed a JSON body
BodyPositions == {i \in 1..Len(Items) : Items[i].kind \in {"JSONField", "DataField"}}
\* the last of them that carries the name k
LastOf(k) ==
    CHOOSE i \in BodyPositions :
        /\ Items[i].key = k
        /\ \A j \in BodyPositions : Items[j].key = k => j <= i
\* the JSON value the item at position i stands for
JsonValueAt(i) ==
    IF Items[i].kind = "DataField"
    THEN [t |-> "String", v |-> Items[i].value]
    ELSE Items[i].value

----------------------------------------------------------------------------
(* C1: whenever the items hold both a file field and a JSON field, in any  *)
(* order and among any other items, body() returns an error and no body,   *)
(* with the form flag false and with it true.                              *)
C1_FileAndJsonIsError ==
    (pc = "assembled" /\ HasKind("FormFile") /\ HasKind("JSONField"))
        => /\ assembled.res = "Err"
           /\ assembled.e \in {ErrFilesInJson, ErrJsonInForm}

\* a form-mode call whose items hold a file field before a JSON field
C1_Witness ==
    /\ pc = "assembled"
    /\ args.form
    /\ Len(Items) = 3
    /\ Items[1].kind = "FormFile"
    /\ Items[2].kind = "DataField"
    /\ Items[3].kind = "JSONField"
    /\ assembled.res = "Err"

----------------------------------------------------------------------------
(* C3 as stated: in form mode with no JSON field, body() returns Multipart *)
(* if and only if a file field is present, Form with the data pairs when   *)
(* there are data fields and no file field, and no body when there are     *)
(* neither.                                                                *)
C3_AsStated ==
    (pc = "assembled" /\ args.form /\ ~HasKind("JSONField"))
        => /\ HasKind("FormFile") <=> ReturnedBody(assembled, "Multipart")
           /\ (HasKind("DataField") /\ ~HasKind("FormFile"))
                  => /\ ReturnedBody(assembled, "Form")
                     /\ assembled.v.v.pairs = PairsOf(OfKind("DataField"))
           /\ (~HasKind("DataField") /\ ~HasKind("FormFile")) => ReturnedNone(assembled)

AllFilesOpen == \A i \in 1..Len(Items) :
    Items[i].kind = "FormFile" => Items[i].value \notin env.unreadable

(* C3 amended: in form mode with no JSON field, body() returns Multipart   *)
(* if and only if a file field is present and every file path can be       *)
(* opened; with a file field whose path cannot be opened the call panics   *)
(* and returns nothing; it returns Form with the data pairs when there are *)
(* data fields and no file field, and no body when there are neither.      *)
C3_MultipartIffFilesOpen ==
    (pc = "assembled" /\ args.form /\ ~HasKind("JSONField"))
        => /\ (HasKind("FormFile") /\ AllFilesOpen) <=> ReturnedBody(assembled, "Multipart")
           /\ (HasKind("FormFile") /\ ~AllFilesOpen) <=> assembled.res = "Panic"
           /\ ReturnedBody(assembled, "Multipart")
                  => /\ assembled.v.v.text = PairsOf(OfKind("DataField"))
                     /\ assembled.v.v.files = PairsOf(OfKind("FormFile"))
           /\ (HasKind("DataField") /\ ~HasKind("FormFile"))
                  => /\ ReturnedBody(assembled, "Form")
                     /\ assembled.v.v.pairs = PairsOf(OfKind("DataField"))
           /\ (~HasKind("DataField") /\ ~HasKind("FormFile")) => ReturnedNone(assembled)

\* a form-mode call with a data field and two file fields, all of them open
C3_Witness ==
    /\ pc = "assembled"
    /\ args.form
    /\ Len(OfKind("FormFile")) = 2
    /\ Len(OfKind("DataField")) = 1
    /\ AllFilesOpen
    /\ ReturnedBody(assembled, "Multipart")

----------------------------------------------------------------------------
(* C8: in form mode with multipart requested, at least one data field and  *)
(* neither file nor JSON fields, body() returns Multipart with the text    *)
(* parts in classified order, not Form.                                    *)
C8_MultipartRequested ==
    (/\ pc = "assembled" /\ args.form /\ args.multipart
     /\ HasKind("DataField") /\ ~HasKind("FormFile") /\ ~HasKind("JSONField"))
        => /\ ReturnedBody(assembled, "Multipart")
           /\ assembled.v.v.text = PairsOf(OfKind("DataField"))

----------------------------------------------------------------------------
(* C9: with form false and no file field the Json body has exactly one     *)
(* entry per distinct name, holding the value of the last item of that     *)
(* name, a data field's value as a JSON string; with form true the Form    *)
(* body is the list of all data pairs in classified order, duplicates      *)
(* kept; query() is the list of all query pairs in classified order.       *)
C9_MapAndListSemantics ==
    /\ (pc = "assembled" /\ ~args.form /\ ~HasKind("FormFile"))
          => IF BodyPositions = {} THEN ReturnedNone(assembled)
             ELSE /\ ReturnedBody(assembled, "Json")
                  /\ DOMAIN assembled.v.v.map = {Items[i].key : i \in BodyPositions}
                  /\ \A k \in DOMAIN assembled.v.v.map :
                        assembled.v.v.map[k] = JsonValueAt(LastOf(k))
    /\ (pc = "assembled" /\ args.form /\ ReturnedBody(assembled, "Form"))
          => assembled.v.v.pairs = PairsOf(OfKind("DataField"))
    /\ pc \in {"queried", "assembled"} => query = PairsOf(OfKind("UrlParam"))

\* a JSON-mode call where a name is given as a JSON number and then again as
\* a data field
C9_Witness ==
    /\ pc = "assembled"
    /\ ~args.form
    /\ Len(Items) = 3
    /\ Items[1] = JSONField("a", JsonNumber("1"))
    /\ Items[2] = DataField("b", "1")
    /\ Items[3] = DataField("a", "x")
    /\ ReturnedBody(assembled, "Json")
    /\ assembled.v.v.map["a"] = JsonString("x")

----------------------------------------------------------------------------
(* C2: the exit code is 0 when neither check_status nor download is set;   *)
(* otherwise 3 for a status in 300..399 when follow is false, 4 for        *)
(* 400..499, 5 for 500..599 and 0 in every other case; it is always one of *)
(* 0, 3, 4, 5.                                                             *)
C2_ExitCode ==
    pc = "classified" =>
        LET checked == args.check_status \/ args.download IN
        /\ exit_code \in {0, 3, 4, 5}
        /\ ~checked => exit_code = 0
        /\ (checked /\ status >= 300 /\ status <= 399)
              => exit_code = (IF args.follow THEN 0 ELSE 3)
        /\ (checked /\ status >= 400 /\ status <= 499) => exit_code = 4
        /\ (checked /\ status >= 500 /\ status <= 599) => exit_code = 5
        /\ (checked /\ (status < 300 \/ status > 599)) => exit_code = 0
        /\ (status = 200 /\ args.check_status /\ ~args.download) => exit_code = 0
        /\ (status = 301 /\ ~args.follow /\ args.check_status /\ ~args.download)
              => exit_code = 3
        /\ (status = 404 /\ args.check_status /\ ~args.download) => exit_code = 4
        /\ (status = 503 /\ ~args.check_status /\ ~args.download) => exit_code = 0

\* a 399 answered while redirects are followed and the status is checked
C2_Witness ==
    /\ pc = "classified"
    /\ status = 399
    /\ args.follow
    /\ args.check_status
    /\ exit_code = 0

----------------------------------------------------------------------------
(* C4: a run in which the header projection, the URL construction, the     *)
(* body assembly or the stdin/body conflict check fails ends in an error   *)
(* with no request executed and no request or response part printed.       *)
C4_FailFast ==
    err \in {"HeaderProjection", "InvalidUrl", "IncompatibleBodyFields",
             "ConflictingBodySources"}
        => /\ pc = "failed"
           /\ ~executed
           /\ printed = <<>>
           /\ request = Undef
           /\ download = None

\* a run that ended on a file field given in JSON mode
C4_Witness ==
    /\ pc = "failed"
    /\ err = "IncompatibleBodyFields"
    /\ assembled = Err(ErrFilesInJson)
    /\ ~executed

----------------------------------------------------------------------------
(* C5: when stdin is not ignored and body() yields a body, the run aborts  *)
(* with ConflictingBodySources before any network activity; when stdin is  *)
(* not ignored and body() yields none, the piped bytes are the body,       *)
(* verbatim; when stdin is ignored, what body() yields is used unchanged.  *)
C5_StdinRule ==
    (pc \notin {"start", "projected"} /\ assembled # Undef /\ assembled.res = "Ok")
        => /\ (~ignore_stdin /\ assembled.v # None)
                 => /\ pc = "failed"
                    /\ err = "ConflictingBodySources"
                    /\ ~executed
           /\ (~ignore_stdin /\ assembled.v = None /\ err # "StdinRead")
                 => /\ env.stdin \in StdinContents
                    /\ body = Some([kind |-> "Raw", bytes |-> env.stdin])
           /\ ignore_stdin => body = assembled.v

\* a run given a data field while bytes are piped to it
C5_Witness ==
    /\ pc = "failed"
    /\ err = "ConflictingBodySources"
    /\ ignore_stdin = FALSE
    /\ ReturnedBody(assembled, "Json")

----------------------------------------------------------------------------
(* C6: no header named by a header-unset item is in the finalized request, *)
(* whether a default, the body encoder, resume, auth or a header item at   *)
(* any position set it; every other header is as it was before the unset.  *)
UnsetNames == {HeaderName(it.key) : it \in Elems(OfKind("HttpHeaderToUnset"))}

BeforeUnset ==
    replace_headers(built_headers(body, args.resume, env.file_size, args.auth, args.bearer),
                    headers.set)

----------------------------------------------------------------------------
(* C7, its parts.                                                          *)

Resuming == args.resume /\ env.file_size # None
NamesRange(it) == HeaderName(it.key) = "range"
RangeSetters == SelectSeq(OfKind("HttpHeader"), NamesRange)
RangeUnset == \E it \in Elems(OfKind("HttpHeaderToUnset")) : NamesRange(it)
RangeOf(n) == "bytes=" \o ToString(n) \o "-"

\* the offset kept, and the offset the download is given
OffsetKept ==
    /\ resume = (IF Resuming THEN Some(env.file_size.v) ELSE None)
    /\ download # None => download.v.resume = resume
    /\ executed => request # Undef

----------------------------------------------------------------------------
(* C10: in download mode download_file is called only after the response   *)
(* has been received and only with exit code 0, never with 3, 4 or 5, and  *)
(* the response body is never printed; in offline mode no request is       *)
(* executed, nothing is downloaded and the exit code is 0.                 *)
C10_DownloadOnlyOnSuccess ==
    /\ download # None
          => /\ args.download
             /\ executed
             /\ status \in Statuses
             /\ exit_code = 0
    /\ (args.download /\ pc = "done" /\ exit_code \in {3, 4, 5}) => download = None
    /\ args.download => "response_body" \notin Elems(printed)
    /\ args.offline
          => /\ ~executed
             /\ download = None
             /\ pc = "done" => exit_code = 0

\* a download answered 404 with the response body gate open
C10_Witness ==
    /\ pc = "done"
    /\ executed
    /\ args.download
    /\ status = 404
    /\ exit_code = 4
    /\ print.response_body
    /\ download = None

====
